---- MODULE Spec2Model ----
(***************************************************************************)
(* search-gwas: the cache refresh protocol (src/src/files.rs,              *)
(* check_for_updates), the catalog ingestion (write_gwas_file), the       *)
(* ontology ingestion (write_efo_file), the trait query (Trait::run,       *)
(* find_efo, query) and the secondary query (AzTrait::run, query_az).      *)
(*                                                                         *)
(* Time is counted in ticks, TicksPerDay ticks to a day.  A remote         *)
(* document is identified by the stamp of its publication; `ok` says       *)
(* whether it parses.                                                      *)
(***************************************************************************)
EXTENDS Integers, Sequences, FiniteSets, TLC

\* ------------------------------------------------------------------ bounds
MaxTime == 2
TicksPerDay == 2
MaxCalls == 2
MaxPubs == 1

\* chrono::Duration::days(1) of the freshness test
FreshDays == 1

\* ------------------------------------------------------- the cache directory
associations_path == "associations.rkyv"
associations_tsv_path == "associations.tsv"
efo_path == "efo.rkyv"
efo_owl_path == "efo.owl"
metadata_path == "metadata.rkyv"

Paths ==
  {associations_path, associations_tsv_path, efo_path, efo_owl_path, metadata_path}

Sources == {"gwas", "efo"}

archive_path(s) == IF s = "gwas" THEN associations_path ELSE efo_path
raw_path(s) == IF s = "gwas" THEN associations_tsv_path ELSE efo_owl_path

\* A file: absent, partially written, or full.  A raw document carries the
\* document it holds; an archive the document it was made from and its
\* modification time; the metadata record its last_updated.
Absent == [st |-> "absent", doc |-> 0, ok |-> TRUE, time |-> 0]
Partial == [st |-> "partial", doc |-> 0, ok |-> TRUE, time |-> 0]
RawFile(b) == [st |-> "full", doc |-> b.doc, ok |-> b.ok, time |-> 0]
ArchiveFile(b, t) == [st |-> "full", doc |-> b.doc, ok |-> TRUE, time |-> t]
MetaFile(t) == [st |-> "full", doc |-> 0, ok |-> TRUE, time |-> t]

NoTmp == [target |-> "none", file |-> Absent]
NoBody == [doc |-> 0, ok |-> TRUE]
NoArgs == [local |-> FALSE, force |-> 0]

VARIABLES
  fs,         \* the cache directory: path -> file
  tmp,        \* the temporary file of the WriteFile in progress
  remote,     \* source -> the document the remote host serves
  now,        \* the clock
  pc,         \* position of check_for_updates
  src,        \* the source being processed
  args,       \* the arguments of the call
  useLocal,   \* the `local` argument of write_gwas_file / write_efo_file
  body,       \* the document text held in memory
  stamp,      \* Utc::now() taken for the metadata record
  result,     \* outcome of the latest call
  prevResult, \* outcome of the call before it
  pre,        \* the cache directory when the latest call started
  callNow,    \* the clock when the latest call read the metadata
  heads,      \* source -> a HEAD request was sent in this call
  gets,       \* source -> a GET request was sent in this call
  decision,   \* source -> what this call decided for it
  seen,       \* source -> the freshness signal the HEAD returned
  wrote,      \* the cache paths this call wrote, in order
  calls,      \* number of calls made
  pubs,       \* number of remote publications
  \* ---- the catalog ingestion (write_gwas_file)
  rows,       \* the records of the document, the header line skipped
  taken,      \* the records the parallel workers have transformed
  emitted,    \* the Associations collected, in the order the workers gave them
  gpc,        \* position of the ingestion
  associations, \* the persisted collection
  \* ---- the ontology ingestion (write_efo_file)
  owl,        \* the nodes of the document, in document order
  visited,    \* the nodes the parallel workers have gone through
  efos,       \* the id-keyed map of the nodes collected
  epc,        \* position of the ingestion
  efo_archive, \* the persisted collection
  \* ---- the trait query (Trait::run)
  cmd,        \* the arguments of the command
  efos_loaded, \* what load_efo returned
  associations_loaded, \* what load_associations returned
  tpc,        \* position of Trait::run
  found,      \* what find_efo returned
  printed,    \* the lines printed to the standard output, in order
  eprinted,   \* the lines printed to the standard error, in order
  \* ---- the secondary query (AzTrait::run)
  az_cmd,     \* the arguments of the command
  az_dir,     \* the secondary directory: file -> its records, or no file
  az_collected, \* the records query_az collected
  apc,        \* position of AzTrait::run
  az_printed  \* the lines printed to the standard output, in order

\* the refresh protocol
rvars ==
  <<fs, tmp, remote, now, pc, src, args, useLocal, body, stamp, result,
    prevResult, pre, callNow, heads, gets, decision, seen, wrote, calls, pubs>>
\* the catalog ingestion
gvars == <<rows, taken, emitted, gpc, associations>>

\* the ontology ingestion
evars == <<owl, visited, efos, epc, efo_archive>>

\* the trait query
tvars == <<cmd, efos_loaded, associations_loaded, tpc, found, printed, eprinted>>
\* the secondary query
avars == <<az_cmd, az_dir, az_collected, apc, az_printed>>
\* the queries
queries == <<tvars, avars>>

\* the ingestions, which the refresh protocol treats as one step each, and the
\* queries, which run after it
ingest == <<gvars, evars, queries>>

vars == <<rvars, gvars, evars, tvars, avars>>

\* what only Call changes
hist == <<args, prevResult, pre, callNow, calls>>
\* the world outside the program
world == <<remote, now, pubs>>
\* the requests sent and the decisions taken by the call in progress
trail == <<heads, gets, decision, seen>>

RefreshInit ==
  /\ fs = [p \in Paths |-> Absent]
  /\ tmp = NoTmp
  /\ remote = [s \in Sources |-> [stamp |-> 0, ok |-> TRUE]]
  /\ now = 0
  /\ pc = "idle"
  /\ src = "gwas"
  /\ args = NoArgs
  /\ useLocal = FALSE
  /\ body = NoBody
  /\ stamp = 0
  /\ result = "none"
  /\ prevResult = "none"
  /\ pre = [p \in Paths |-> Absent]
  /\ callNow = 0
  /\ heads = [s \in Sources |-> FALSE]
  /\ gets = [s \in Sources |-> FALSE]
  /\ decision = [s \in Sources |-> "none"]
  /\ seen = [s \in Sources |-> 0]
  /\ wrote = <<>>
  /\ pubs = 0
  /\ calls = 0

\* No ingestion is modelled in detail.
GwasIdle ==
  /\ rows = <<>>
  /\ taken = {}
  /\ emitted = <<>>
  /\ gpc = "off"
  /\ associations = <<>>

EfoIdle ==
  /\ owl = <<>>
  /\ visited = {}
  /\ efos = <<>>
  /\ epc = "off"
  /\ efo_archive = <<>>

NoCmd ==
  [efo |-> <<>>, gene |-> <<>>, with_associations |-> FALSE,
   with_pubmed_links |-> FALSE, csv |-> FALSE]

TraitIdle ==
  /\ cmd = NoCmd
  /\ efos_loaded = <<>>
  /\ associations_loaded = <<>>
  /\ tpc = "off"
  /\ found = [some |-> FALSE, at |-> 0]
  /\ printed = <<>>
  /\ eprinted = <<>>

NoAzCmd == [trait_ |-> <<>>, gene |-> <<>>, with_associations |-> FALSE, csv |-> FALSE]

AzIdle ==
  /\ az_cmd = NoAzCmd
  /\ az_dir = <<>>
  /\ az_collected = <<>>
  /\ apc = "off"
  /\ az_printed = <<>>

QueriesIdle == TraitIdle /\ AzIdle

Init == RefreshInit /\ GwasIdle /\ EfoIdle /\ QueriesIdle

\* ------------------------------------------------------------ environment
\* The clock is read by Call, ArcWrite and MetaCreate only: a tick at any other
\* position is indistinguishable from one just before the next read.
ClockReaders == {"idle", "arc_write", "meta"}

Tick ==
  /\ now < MaxTime
  /\ pc \in ClockReaders
  /\ now' = now + 1
  /\ UNCHANGED <<fs, tmp, remote, pubs, pc, src, useLocal, body, stamp,
                 result, wrote>>
  /\ UNCHANGED <<hist, trail>>
  /\ UNCHANGED ingest

\* The date of a time (DateTime::naive_utc().date()).
DateOf(t) == t \div TicksPerDay

\* The freshness signals a source can carry: the catalog's Content-Disposition
\* names a date, the ontology's Last-Modified a time.  They are the remote
\* host's, which publishes a newer document whenever it likes.
Signals(s) == IF s = "gwas" THEN 0..DateOf(MaxTime) ELSE 0..MaxTime

\* The remote is read by the HEAD and GET requests only: a publication at any
\* other position is indistinguishable from one just before the next request.
RemoteReaders == {"head", "get"}

Publish(s, good) ==
  /\ pubs < MaxPubs
  /\ pc \in RemoteReaders /\ src = s
  /\ \E latest \in Signals(s) :
       /\ latest > remote[s].stamp
       /\ remote' = [remote EXCEPT ![s] = [stamp |-> latest, ok |-> good]]
  /\ pubs' = pubs + 1
  /\ UNCHANGED <<fs, tmp, now, pc, src, useLocal, body, stamp, result, wrote>>
  /\ UNCHANGED <<hist, trail>>
  /\ UNCHANGED ingest

\* ------------------------------------------------------ check_for_updates
\* What std::fs::read + rkyv::from_bytes_unchecked make of the metadata file:
\* not found, a record, or (a truncated file read unchecked) anything.
ReadMetadata(m) ==
  IF m.st = "absent" THEN {[kind |-> "notfound", ts |-> 0]}
  ELSE IF m.st = "full" THEN {[kind |-> "record", ts |-> m.time]}
  ELSE {[kind |-> "panic", ts |-> 0]}
         \cup {[kind |-> "record", ts |-> t] : t \in 0..MaxTime}

FreshWithinOrAt(last_updated, n, force) ==
  n - last_updated <= FreshDays * TicksPerDay /\ force = 0

FreshOlder(last_updated, n, force) ==
  n - last_updated > FreshDays * TicksPerDay /\ force = 0

Fresh(last_updated, n, force) ==
  n - last_updated < FreshDays * TicksPerDay /\ force = 0

\* The call ends (return or panic): its locals go out of scope.
FinishCall(r) ==
  /\ pc' = "done"
  /\ result' = r
  /\ src' = "gwas"
  /\ useLocal' = FALSE
  /\ body' = NoBody
  /\ stamp' = 0

Call(local, force) ==
  /\ pc = "idle"
  /\ calls < MaxCalls
  /\ calls' = calls + 1
  /\ args' = [local |-> local, force |-> force]
  /\ pre' = fs
  /\ callNow' = now
  /\ prevResult' = result
  /\ UNCHANGED <<trail, wrote>>
  /\ tmp' = NoTmp
  /\ \E m \in ReadMetadata(fs[metadata_path]) :
       IF m.kind = "panic" THEN FinishCall("failed")
       ELSE IF m.kind = "record" /\ Fresh(m.ts, now, force)
         THEN FinishCall("shortcut")
         ELSE /\ pc' = "stat"
              /\ result' = "running"
              /\ UNCHANGED <<src, useLocal, body, stamp>>
  /\ UNCHANGED <<fs, remote, now, pubs>>
  /\ UNCHANGED ingest

\* The process exits; what the call recorded is forgotten.
Exit ==
  /\ pc = "done"
  /\ pc' = "idle"
  /\ args' = NoArgs
  /\ pre' = [p \in Paths |-> Absent]
  /\ callNow' = 0
  /\ heads' = [s \in Sources |-> FALSE]
  /\ gets' = [s \in Sources |-> FALSE]
  /\ decision' = [s \in Sources |-> "none"]
  /\ seen' = [s \in Sources |-> 0]
  /\ wrote' = <<>>
  /\ UNCHANGED <<fs, tmp, src, useLocal, body, stamp, result, prevResult, calls>>
  /\ UNCHANGED world
  /\ UNCHANGED ingest

AdvanceToMetadata(s) == pc' = "meta" /\ src' = src

\* After a source: the ontology follows the catalog, the metadata follows both.
Advance(s) ==
  IF s = "gwas" THEN pc' = "stat" /\ src' = "efo"
  ELSE pc' = "meta" /\ src' = src

StatMissingSkips(s) ==
  /\ pc = "stat" /\ src = s
  /\ fs[archive_path(s)].st = "absent"
  /\ decision' = [decision EXCEPT ![s] = "skip"]
  /\ Advance(s)
  /\ UNCHANGED <<fs, tmp, useLocal, body, stamp, result, wrote, heads, gets, seen>>
  /\ UNCHANGED <<hist, world>>
  /\ UNCHANGED ingest

\* std::fs::metadata(archive) failed: write_*_file(client, dir, false).
StatMissing(s) ==
  /\ pc = "stat" /\ src = s
  /\ fs[archive_path(s)].st = "absent"
  /\ useLocal' = FALSE
  /\ decision' = [decision EXCEPT ![s] = "fresh"]
  /\ pc' = "get"
  /\ UNCHANGED <<fs, tmp, src, body, stamp, result, wrote, heads, gets, seen>>
  /\ UNCHANGED <<hist, world>>
  /\ UNCHANGED ingest

StatFound(s) ==
  /\ pc = "stat" /\ src = s
  /\ fs[archive_path(s)].st # "absent"
  /\ pc' = "head"
  /\ UNCHANGED <<fs, tmp, src, useLocal, body, stamp, result, wrote>>
  /\ UNCHANGED <<hist, world, trail>>
  /\ UNCHANGED ingest

\* The comparison of the archive's modification time with the remote signal.
Stale(s, mtime, latest) ==
  IF s = "gwas" THEN DateOf(mtime) < latest ELSE mtime < latest

ReingestAnyForce(s, mtime, latest, force) == Stale(s, mtime, latest) \/ force >= 1

\* Whether a source whose archive exists is ingested again.
Reingest(s, mtime, latest, force) == Stale(s, mtime, latest) \/ force = 2

HeadOk(s) ==
  /\ pc = "head" /\ src = s
  /\ heads' = [heads EXCEPT ![s] = TRUE]
  /\ seen' = [seen EXCEPT ![s] = remote[s].stamp]
  /\ IF Reingest(s, fs[archive_path(s)].time, remote[s].stamp, args.force)
       THEN /\ useLocal' = args.local
            /\ decision' = [decision EXCEPT ![s] =
                              IF args.local THEN "local" ELSE "download"]
            /\ pc' = IF args.local THEN "read" ELSE "get"
            /\ src' = src
       ELSE /\ useLocal' = useLocal
            /\ decision' = [decision EXCEPT ![s] = "skip"]
            /\ Advance(s)
  /\ UNCHANGED <<fs, tmp, body, stamp, result, wrote, gets>>
  /\ UNCHANGED <<hist, world>>
  /\ UNCHANGED ingest

\* A panic: the WriteFile in scope is dropped, which removes its temporary file.
Panic ==
  /\ tmp' = NoTmp
  /\ FinishCall("failed")

HeadFail(s) ==
  /\ pc = "head" /\ src = s
  /\ heads' = [heads EXCEPT ![s] = TRUE]
  /\ Panic
  /\ UNCHANGED <<fs, wrote, gets, decision, seen>>
  /\ UNCHANGED <<hist, world>>
  /\ UNCHANGED ingest

\* ------------------------------------- write_gwas_file / write_efo_file
ReadLocal(s) ==
  /\ pc = "read" /\ src = s
  /\ fs[raw_path(s)].st = "full"
  /\ body' = [doc |-> fs[raw_path(s)].doc, ok |-> fs[raw_path(s)].ok]
  /\ pc' = "parse"
  /\ UNCHANGED <<fs, tmp, src, useLocal, stamp, result, wrote>>
  /\ UNCHANGED <<hist, world, trail>>
  /\ UNCHANGED ingest

GetOk(s) ==
  /\ pc = "get" /\ src = s
  /\ gets' = [gets EXCEPT ![s] = TRUE]
  /\ body' = [doc |-> remote[s].stamp, ok |-> remote[s].ok]
  /\ pc' = "raw_write"
  /\ UNCHANGED <<fs, tmp, src, useLocal, stamp, result, wrote, heads, decision,
                 seen>>
  /\ UNCHANGED <<hist, world>>
  /\ UNCHANGED ingest

GetFail(s) ==
  /\ pc = "get" /\ src = s
  /\ gets' = [gets EXCEPT ![s] = TRUE]
  /\ Panic
  /\ UNCHANGED <<fs, wrote, heads, decision, seen>>
  /\ UNCHANGED <<hist, world>>
  /\ UNCHANGED ingest

\* WriteFile::new, File::create(&self.tmp) and tmp.write_all(..): the temporary
\* file holds the data; an error in either leaves the call to Panic.
TmpWrite(path, file) == tmp' = [target |-> path, file |-> file]
\* std::fs::rename(&self.tmp, &self.path)
TmpRename ==
  /\ fs' = [fs EXCEPT ![tmp.target] = tmp.file]
  /\ tmp' = NoTmp

RawWrite(s) ==
  /\ pc = "raw_write" /\ src = s
  /\ TmpWrite(raw_path(s), RawFile(body))
  /\ pc' = "raw_rename"
  /\ UNCHANGED <<fs, src, useLocal, body, stamp, result, wrote>>
  /\ UNCHANGED <<hist, world, trail>>
  /\ UNCHANGED ingest

RawRename(s) ==
  /\ pc = "raw_rename" /\ src = s
  /\ TmpRename
  /\ wrote' = Append(wrote, raw_path(s))
  /\ pc' = "parse"
  /\ UNCHANGED <<src, useLocal, body, stamp, result>>
  /\ UNCHANGED <<hist, world, trail>>
  /\ UNCHANGED ingest

\* Parsing, the per-record transform and the post-pass; a document that does
\* not parse panics.
Process(s) ==
  /\ pc = "parse" /\ src = s
  /\ body.ok
  /\ pc' = "arc_write"
  /\ UNCHANGED <<fs, tmp, src, useLocal, body, stamp, result, wrote>>
  /\ UNCHANGED <<hist, world, trail>>
  /\ UNCHANGED ingest

ProcessFail(s) ==
  /\ pc = "parse" /\ src = s
  /\ ~body.ok
  /\ Panic
  /\ UNCHANGED <<fs, wrote>>
  /\ UNCHANGED <<hist, world, trail>>
  /\ UNCHANGED ingest

ArcWrite(s) ==
  /\ pc = "arc_write" /\ src = s
  /\ TmpWrite(archive_path(s), ArchiveFile(body, now))
  /\ pc' = "arc_rename"
  /\ UNCHANGED <<fs, src, useLocal, body, stamp, result, wrote>>
  /\ UNCHANGED <<hist, world, trail>>
  /\ UNCHANGED ingest

ArcRename(s) ==
  /\ pc = "arc_rename" /\ src = s
  /\ TmpRename
  /\ wrote' = Append(wrote, archive_path(s))
  /\ Advance(s)
  /\ UNCHANGED <<useLocal, body, stamp, result>>
  /\ UNCHANGED <<hist, world, trail>>
  /\ UNCHANGED ingest

\* A filesystem error in read_to_string or in a WriteFile step.
FsSteps ==
  {"read", "raw_write", "raw_rename", "arc_write", "arc_rename"}

FsFail(s) ==
  /\ pc \in FsSteps /\ src = s
  /\ Panic
  /\ UNCHANGED <<fs, wrote>>
  /\ UNCHANGED <<hist, world, trail>>
  /\ UNCHANGED ingest

\* ------------------------------------------------- the metadata record
\* rkyv::to_bytes(Metadata { last_updated: Utc::now() }), then std::fs::write,
\* which creates (truncates) metadata.rkyv in place ...
MetaCreate ==
  /\ pc = "meta"
  /\ stamp' = now
  /\ fs' = [fs EXCEPT ![metadata_path] = Partial]
  /\ wrote' = Append(wrote, metadata_path)
  /\ pc' = "meta_write"
  /\ UNCHANGED <<tmp, src, useLocal, body, result>>
  /\ UNCHANGED <<hist, world, trail>>
  /\ UNCHANGED ingest

\* ... and then writes the bytes.
MetaWrite ==
  /\ pc = "meta_write"
  /\ fs' = [fs EXCEPT ![metadata_path] = MetaFile(stamp)]
  /\ FinishCall("ok")
  /\ UNCHANGED <<tmp, wrote>>
  /\ UNCHANGED <<hist, world, trail>>
  /\ UNCHANGED ingest

MetaFail ==
  /\ pc \in {"meta", "meta_write"}
  /\ Panic
  /\ UNCHANGED <<fs, wrote>>
  /\ UNCHANGED <<hist, world, trail>>
  /\ UNCHANGED ingest

Next ==
  \/ Tick
  \/ \E s \in Sources, good \in BOOLEAN : Publish(s, good)
  \/ \E local \in BOOLEAN, force \in 0..2 : Call(local, force)
  \/ Exit
  \/ \E s \in Sources : StatMissing(s)
  \/ \E s \in Sources : StatFound(s)
  \/ \E s \in Sources : HeadOk(s)
  \/ \E s \in Sources : HeadFail(s)
  \/ \E s \in Sources : ReadLocal(s)
  \/ \E s \in Sources : GetOk(s)
  \/ \E s \in Sources : GetFail(s)
  \/ \E s \in Sources : RawWrite(s)
  \/ \E s \in Sources : RawRename(s)
  \/ \E s \in Sources : Process(s)
  \/ \E s \in Sources : ProcessFail(s)
  \/ \E s \in Sources : ArcWrite(s)
  \/ \E s \in Sources : ArcRename(s)
  \/ \E s \in Sources : FsFail(s)
  \/ MetaCreate
  \/ MetaWrite
  \/ MetaFail

Spec == Init /\ [][Next]_vars

\* ==================================================== write_gwas_file
\* Text is a sequence of one-character strings.  A record is given by its
\* fields (the header positions are found by name); the trait-URI field is
\* given as the list of its comma-separated parts.
MaxRows == 3

CharCode(c) ==
  CASE c = " " -> 32 [] c = "A" -> 65 [] c = "B" -> 66
    [] c = "a" -> 97 [] c = "b" -> 98 [] OTHER -> 0

UpperChar(c) == CASE c = "a" -> "A" [] c = "b" -> "B" [] OTHER -> c

to_uppercase(s) == [i \in 1..Len(s) |-> UpperChar(s[i])]

RECURSIVE TrimStart(_)
TrimStart(s) ==
  IF s # <<>> /\ Head(s) = " " THEN TrimStart(Tail(s)) ELSE s

RECURSIVE TrimEnd(_)
TrimEnd(s) ==
  IF s # <<>> /\ s[Len(s)] = " " THEN TrimEnd(SubSeq(s, 1, Len(s) - 1)) ELSE s

trim(s) == TrimEnd(TrimStart(s))

\* s.split(sep).last(): what follows the last sep, all of s when there is none.
RECURSIVE SplitLast(_, _)
SplitLast(s, sep) ==
  IF \E i \in 1..Len(s) : s[i] = sep
    THEN SplitLast(Tail(s), sep)
    ELSE s

starts_with(s, prefix) ==
  Len(s) >= Len(prefix) /\ SubSeq(s, 1, Len(prefix)) = prefix

Digits == {"0", "1", "2", "3", "4", "5", "6", "7", "8", "9"}

DigitVal(c) ==
  CASE c = "0" -> 0 [] c = "1" -> 1 [] c = "2" -> 2 [] c = "3" -> 3
    [] c = "4" -> 4 [] c = "5" -> 5 [] c = "6" -> 6 [] c = "7" -> 7
    [] c = "8" -> 8 [] c = "9" -> 9

RECURSIVE DigitsValue(_, _)
DigitsValue(s, acc) ==
  IF s = <<>> THEN acc ELSE DigitsValue(Tail(s), acc * 10 + DigitVal(Head(s)))

\* str::parse::<u32> (the texts of the model are too short to overflow)
ParseU32(s) ==
  IF s # <<>> /\ \A i \in 1..Len(s) : s[i] \in Digits
    THEN [ok |-> TRUE, val |-> DigitsValue(s, 0)]
    ELSE [ok |-> FALSE, val |-> 0]

\* str::parse::<f64>, on the texts of the model; a value is counted in 1e-10.
ParseF64(text) ==
  CASE text = "1e-10" -> [ok |-> TRUE, nan |-> FALSE, v |-> 1]
    [] text = "4.9e-8" -> [ok |-> TRUE, nan |-> FALSE, v |-> 490]
    [] text = "5e-8" -> [ok |-> TRUE, nan |-> FALSE, v |-> 500]
    [] text = "1e-3" -> [ok |-> TRUE, nan |-> FALSE, v |-> 10000000]
    [] text = "NaN" -> [ok |-> TRUE, nan |-> TRUE, v |-> 0]
    [] OTHER -> [ok |-> FALSE, nan |-> FALSE, v |-> 0]

F64(x) == [nan |-> x.nan, v |-> x.v]

\* ---- orderings (Ord for u32 and String, PartialOrd for f64, Vec, and the
\* derived PartialOrd of Association)
CmpInt(a, b) == IF a < b THEN "lt" ELSE IF a > b THEN "gt" ELSE "eq"

RECURSIVE CmpNums(_, _)
CmpNums(a, b) ==
  IF a = <<>> /\ b = <<>> THEN "eq"
  ELSE IF a = <<>> THEN "lt"
  ELSE IF b = <<>> THEN "gt"
  ELSE IF Head(a) # Head(b) THEN CmpInt(Head(a), Head(b))
  ELSE CmpNums(Tail(a), Tail(b))

CmpStr(a, b) ==
  CmpNums([i \in 1..Len(a) |-> CharCode(a[i])],
          [i \in 1..Len(b) |-> CharCode(b[i])])

RECURSIVE CmpStrs(_, _)
CmpStrs(a, b) ==
  IF a = <<>> /\ b = <<>> THEN "eq"
  ELSE IF a = <<>> THEN "lt"
  ELSE IF b = <<>> THEN "gt"
  ELSE IF CmpStr(Head(a), Head(b)) # "eq" THEN CmpStr(Head(a), Head(b))
  ELSE CmpStrs(Tail(a), Tail(b))

CmpF64(a, b) == IF a.nan \/ b.nan THEN "none" ELSE CmpInt(a.v, b.v)

\* #[derive(PartialOrd)]: the fields in the order of their declaration
partial_cmp(a, b) ==
  IF CmpNums(a.traits, b.traits) # "eq" THEN CmpNums(a.traits, b.traits)
  ELSE IF CmpF64(a.p_value, b.p_value) # "eq" THEN CmpF64(a.p_value, b.p_value)
  ELSE IF CmpStrs(a.mapped_gene, b.mapped_gene) # "eq"
    THEN CmpStrs(a.mapped_gene, b.mapped_gene)
  ELSE IF a.accession_id # b.accession_id
    THEN CmpInt(a.accession_id, b.accession_id)
  ELSE CmpInt(a.pubmed, b.pubmed)

\* #[derive(PartialEq)]: a NaN equals nothing
AssocEq(a, b) ==
  /\ a.traits = b.traits
  /\ ~a.p_value.nan /\ ~b.p_value.nan /\ a.p_value.v = b.p_value.v
  /\ a.mapped_gene = b.mapped_gene
  /\ a.accession_id = b.accession_id
  /\ a.pubmed = b.pubmed

\* ---- sorting (slice::sort, an insertion sort on short slices)
RECURSIVE InsertNum(_, _)
InsertNum(s, x) ==
  IF s = <<>> \/ s[Len(s)] <= x THEN Append(s, x)
  ELSE Append(InsertNum(SubSeq(s, 1, Len(s) - 1), x), s[Len(s)])

RECURSIVE SortNumsFrom(_, _)
SortNumsFrom(done, rest) ==
  IF rest = <<>> THEN done
  ELSE SortNumsFrom(InsertNum(done, Head(rest)), Tail(rest))

SortNumsNot(s) == s

\* traits.sort()
SortNums(s) == SortNumsFrom(<<>>, s)

RECURSIVE InsertStr(_, _)
InsertStr(s, x) ==
  IF s = <<>> \/ CmpStr(s[Len(s)], x) # "gt" THEN Append(s, x)
  ELSE Append(InsertStr(SubSeq(s, 1, Len(s) - 1), x), s[Len(s)])

RECURSIVE SortStrsFrom(_, _)
SortStrsFrom(done, rest) ==
  IF rest = <<>> THEN done
  ELSE SortStrsFrom(InsertStr(done, Head(rest)), Tail(rest))

\* mapped_gene.sort()
SortStrs(s) == SortStrsFrom(<<>>, s)

\* Ord::cmp of Association is partial_cmp(..).unwrap(): ok is FALSE when it
\* panics.
RECURSIVE InsertAssoc(_, _)
InsertAssoc(s, x) ==
  IF s = <<>> THEN [ok |-> TRUE, seq |-> <<x>>]
  ELSE LET c == partial_cmp(s[Len(s)], x) IN
       IF c = "none" THEN [ok |-> FALSE, seq |-> <<>>]
       ELSE IF c # "gt" THEN [ok |-> TRUE, seq |-> Append(s, x)]
       ELSE LET f == InsertAssoc(SubSeq(s, 1, Len(s) - 1), x) IN
            [ok |-> f.ok, seq |-> Append(f.seq, s[Len(s)])]

RECURSIVE SortAssocFrom(_, _)
SortAssocFrom(done, rest) ==
  IF rest = <<>> THEN [ok |-> TRUE, seq |-> done]
  ELSE LET f == InsertAssoc(done, Head(rest)) IN
       IF f.ok THEN SortAssocFrom(f.seq, Tail(rest))
       ELSE [ok |-> FALSE, seq |-> <<>>]

SortAssocNot(s) == [ok |-> TRUE, seq |-> s]

\* associations.sort()
SortAssoc(s) == SortAssocFrom(<<>>, s)

\* associations.dedup(): of consecutive equal elements the first is kept
RECURSIVE Dedup(_)
Dedup(s) ==
  IF Len(s) <= 1 THEN s
  ELSE LET d == Dedup(SubSeq(s, 1, Len(s) - 1)) IN
       IF AssocEq(d[Len(d)], s[Len(s)]) THEN d ELSE Append(d, s[Len(s)])

\* ---- the per-record transform
EfoPrefix == <<"E", "F", "O", "_">>

\* the final path segments of the parts of the trait-URI field that carry the
\* ontology prefix, the prefix stripped
RECURSIVE TraitTexts(_)
TraitTexts(uris) ==
  IF uris = <<>> THEN <<>>
  ELSE LET seg == SplitLast(Head(uris), "/") IN
       IF starts_with(seg, EfoPrefix)
         THEN <<SplitLast(seg, "_")>> \o TraitTexts(Tail(uris))
         ELSE TraitTexts(Tail(uris))

NoAssociation ==
  [traits |-> <<>>, p_value |-> [nan |-> FALSE, v |-> 0], mapped_gene |-> <<>>,
   accession_id |-> 0, pubmed |-> 0]

\* The filter_map closure of write_gwas_file: kind is "some" (an Association),
\* "none" (the record is dropped) or "panic" (an unwrap failed).
Transform(r) ==
  LET texts == TraitTexts(r.disease)
      gene == trim(r.mapped_gene)
      p == ParseF64(r.p_value)
      acc == ParseU32(SubSeq(r.accession, 5, Len(r.accession)))
      pm == ParseU32(SplitLast(r.link, "/"))
  IN IF \E i \in 1..Len(texts) : ~ParseU32(texts[i]).ok
       THEN [kind |-> "panic", val |-> NoAssociation]
     ELSE IF gene = <<>>
       THEN [kind |-> "none", val |-> NoAssociation]
     ELSE IF ~p.ok \/ Len(r.accession) < 4 \/ ~acc.ok \/ ~pm.ok
       THEN [kind |-> "panic", val |-> NoAssociation]
     ELSE [kind |-> "some",
           val |-> [traits |->
                      SortNums([i \in 1..Len(texts) |-> ParseU32(texts[i]).val]),
                    p_value |-> F64(p),
                    mapped_gene |-> SortStrs(<<to_uppercase(gene)>>),
                    accession_id |-> acc.val,
                    pubmed |-> pm.val]]

\* ---- the records the model reads
Uri(prefix, digits) == <<"e", "/">> \o prefix \o digits
Efo2 == Uri(EfoPrefix, <<"2">>)
Efo1 == Uri(EfoPrefix, <<"1">>)
Efo01 == Uri(EfoPrefix, <<"0", "1">>)
Mondo1 == Uri(<<"M", "O", "_">>, <<"1">>)
Gcst(digits) == <<"G", "C", "S", "T">> \o digits
Link(digits) == <<"p", "/">> \o digits

BaseRow ==
  [disease |-> <<Efo2, Efo1>>, p_value |-> "4.9e-8", mapped_gene |-> <<" ", "b">>,
   accession |-> Gcst(<<"0", "1">>), link |-> Link(<<"7">>)]

\* BaseRow, and BaseRow with one field changed (the record with a blank gene
\* also has a p-value that does not parse)
RowKinds ==
  {BaseRow}
    \cup {[BaseRow EXCEPT !.disease = <<Efo1, Mondo1, Efo01>>]}
    \cup {[BaseRow EXCEPT !.p_value = t] : t \in {"1e-3", "NaN"}}
    \cup {[BaseRow EXCEPT !.mapped_gene = g] : g \in {<<"B", " ">>, <<"a", "B">>}}
    \cup {[BaseRow EXCEPT !.mapped_gene = <<" ">>, !.p_value = "n/a"]}
    \cup {[BaseRow EXCEPT !.accession = Gcst(<<"2">>)]}
    \cup {[BaseRow EXCEPT !.link = Link(<<"8">>)]}

Documents == UNION {[1..n -> RowKinds] : n \in 0..MaxRows}

RefreshIdle ==
  /\ RefreshInit
  /\ pc = "idle"

InitGwas ==
  /\ RefreshIdle
  /\ EfoIdle
  /\ QueriesIdle
  /\ rows \in Documents
  /\ taken = {}
  /\ emitted = <<>>
  /\ gpc = "map"
  /\ associations = <<>>

\* One worker of the par_bridge takes a record and transforms it; collect()
\* gathers the results in the order the workers deliver them.
MapRecord(i) ==
  /\ gpc = "map"
  /\ i \in DOMAIN rows
  /\ i \notin taken
  /\ taken' = taken \cup {i}
  /\ LET r == Transform(rows[i]) IN
       /\ emitted' = IF r.kind = "some" THEN Append(emitted, r.val) ELSE emitted
       /\ gpc' = IF r.kind = "panic" THEN "panic" ELSE gpc
  /\ UNCHANGED <<rows, associations>>
  /\ UNCHANGED <<rvars, evars, queries>>

\* collect::<Vec<_>>() has returned: every record went through the closure.
Collected == taken = DOMAIN rows

\* associations.sort(); associations.dedup(); write_archive(&associations)
PostPass ==
  /\ gpc = "map"
  /\ Collected
  /\ LET s == SortAssoc(emitted) IN
       IF s.ok
         THEN associations' = Dedup(s.seq) /\ gpc' = "done"
         ELSE associations' = associations /\ gpc' = "panic"
  /\ UNCHANGED <<rows, taken, emitted>>
  /\ UNCHANGED <<rvars, evars, queries>>

NextGwas ==
  \/ \E i \in 1..MaxRows : MapRecord(i)
  \/ PostPass

SpecGwas == InitGwas /\ [][NextGwas]_vars

\* ==================================================== write_efo_file
\* A node of the document is given by what the closure reads of it: its tag,
\* its rdf:about attribute, its first rdfs:label child, its first
\* rdfs:subClassOf child and its oboInOwl:hasExactSynonym children.
MaxNodes == 3

NoAttr == [has |-> FALSE, v |-> <<>>]
Attr(v) == [has |-> TRUE, v |-> v]

NoLabel == [has |-> FALSE, text |-> NoAttr]
Label(text) == [has |-> TRUE, text |-> Attr(text)]

NoSubClassOf == [has |-> FALSE, resource |-> NoAttr]
SubClassOf(resource) == [has |-> TRUE, resource |-> Attr(resource)]
\* <rdfs:subClassOf> that holds a restriction instead of naming a resource
SubClassOfAnonymous == [has |-> TRUE, resource |-> NoAttr]

None == [some |-> FALSE, id |-> 0]
Some(id) == [some |-> TRUE, id |-> id]

NoEfo ==
  [id |-> 0, label |-> <<>>, parent |-> None, children |-> {}, synonyms |-> {}]

\* node.is_text() of an element node
ElementIsText == FALSE

\* the synonyms filter keeps a child that has the tag name hasExactSynonym
\* and is a text node
Synonyms(node) ==
  {to_uppercase(trim(node.synonym[i])) :
     i \in {j \in 1..Len(node.synonym) : ElementIsText}}

\* the map closure on the subClassOf child
Parent(sub) ==
  IF ~sub.has THEN [ok |-> TRUE, val |-> None]
  ELSE IF ~sub.resource.has THEN [ok |-> FALSE, val |-> None]
  ELSE LET id == SplitLast(sub.resource.v, "/") IN
       IF starts_with(id, EfoPrefix)
         THEN LET n == ParseU32(SplitLast(id, "_")) IN
              [ok |-> n.ok, val |-> Some(n.val)]
         ELSE [ok |-> TRUE, val |-> Some(0)]

\* The filter_map closure of write_efo_file: kind is "some" (an Efo), "none"
\* (the node is skipped) or "panic" (an unwrap failed).
EfoTransform(node) ==
  IF node.tag # "Class" \/ ~node.about.has \/ ~node.label.has
    THEN [kind |-> "none", val |-> NoEfo]
  ELSE LET seg == SplitLast(node.about.v, "/") IN
    IF ~starts_with(seg, EfoPrefix)
      THEN [kind |-> "none", val |-> NoEfo]
    ELSE LET id == ParseU32(SplitLast(seg, "_"))
             parent == Parent(node.subClassOf)
         IN IF ~id.ok \/ ~node.label.text.has \/ ~parent.ok
              THEN [kind |-> "panic", val |-> NoEfo]
            ELSE [kind |-> "some",
                  val |-> [id |-> id.val,
                           label |-> to_uppercase(trim(node.label.text.v)),
                           parent |-> parent.val,
                           children |-> {},
                           synonyms |-> Synonyms(node)]]

\* HashMap::insert: an entry of the same key is replaced
Insert(m, id, efo) ==
  [k \in DOMAIN m \cup {id} |-> IF k = id THEN efo ELSE m[k]]

\* the loop over efos.clone(): each node's id goes into the children of its
\* parent, when the map has the parent
RECURSIVE BackfillFrom(_, _, _)
BackfillFrom(m, clone, todo) ==
  IF todo = {} THEN m
  ELSE LET id == CHOOSE k \in todo : TRUE
           efo == clone[id]
           linked ==
             IF efo.parent.some /\ efo.parent.id \in DOMAIN m
               THEN [m EXCEPT ![efo.parent.id].children = @ \cup {id}]
               ELSE m
       IN BackfillFrom(linked, clone, todo \ {id})

BackfillNot(m) == m

Backfill(m) == BackfillFrom(m, m, DOMAIN m)

\* the orders in which into_values() can give the values of a map
Orderings(S) ==
  {f \in [1..Cardinality(S) -> S] : \A i, j \in DOMAIN f : i # j => f[i] # f[j]}

\* ---- the nodes the model reads
EfoUri(digits) == Uri(EfoPrefix, digits)

BaseNode ==
  [tag |-> "Class", about |-> Attr(EfoUri(<<"1">>)), label |-> Label(<<" ", "a">>),
   subClassOf |-> NoSubClassOf, synonym |-> <<>>]

\* the class EFO_1 without parent, its child EFO_2 (with a synonym), a second
\* node of id 1 whose parent is EFO_2, EFO_3 with a parent no node has, EFO_3
\* with a parent outside the ontology, the class of id 0, a class outside the
\* ontology, a class without label, a class without rdf:about, a node that is
\* no class, and a class whose subClassOf names no resource
NodeKinds ==
  {BaseNode}
    \cup {[BaseNode EXCEPT !.about = Attr(EfoUri(<<"2">>)),
                           !.subClassOf = SubClassOf(EfoUri(<<"1">>)),
                           !.synonym = <<<<"b">>>>]}
    \cup {[BaseNode EXCEPT !.label = Label(<<"b">>),
                           !.subClassOf = SubClassOf(EfoUri(<<"0", "2">>))]}
    \cup {[BaseNode EXCEPT !.about = Attr(EfoUri(<<"3">>)),
                           !.subClassOf = SubClassOf(r)] :
            r \in {EfoUri(<<"9">>), Mondo1}}
    \cup {[BaseNode EXCEPT !.about = Attr(EfoUri(<<"0">>))]}
    \cup {[BaseNode EXCEPT !.about = Attr(Mondo1),
                           !.subClassOf = SubClassOfAnonymous]}
    \cup {[BaseNode EXCEPT !.label = NoLabel]}
    \cup {[BaseNode EXCEPT !.about = NoAttr]}
    \cup {[BaseNode EXCEPT !.tag = "Ontology"]}
    \cup {[BaseNode EXCEPT !.subClassOf = SubClassOfAnonymous]}

OwlDocuments == UNION {[1..n -> NodeKinds] : n \in 0..MaxNodes}

InitEfo ==
  /\ RefreshIdle
  /\ GwasIdle
  /\ QueriesIdle
  /\ owl \in OwlDocuments
  /\ visited = {}
  /\ efos = <<>>
  /\ epc = "map"
  /\ efo_archive = <<>>

\* One worker of the par_bridge goes through a node; collect() puts what the
\* workers deliver into the map in the order they deliver it.
VisitNode(i) ==
  /\ epc = "map"
  /\ i \in DOMAIN owl
  /\ i \notin visited
  /\ visited' = visited \cup {i}
  /\ LET r == EfoTransform(owl[i]) IN
       /\ efos' = IF r.kind = "some" THEN Insert(efos, r.val.id, r.val) ELSE efos
       /\ epc' = IF r.kind = "panic" THEN "panic" ELSE epc
  /\ UNCHANGED <<owl, efo_archive>>
  /\ UNCHANGED <<rvars, gvars, queries>>

\* collect::<HashMap<_, _>>() has returned: every node went through the closure.
EfoCollected == visited = DOMAIN owl

\* the backfill loop; write_archive(&efos.into_values().collect::<Vec<_>>())
EfoPostPass ==
  /\ epc = "map"
  /\ EfoCollected
  /\ efos' = Backfill(efos)
  /\ \E order \in Orderings(DOMAIN efos) :
       efo_archive' = [i \in DOMAIN order |-> efos'[order[i]]]
  /\ epc' = "done"
  /\ UNCHANGED <<owl, visited>>
  /\ UNCHANGED <<rvars, gvars, queries>>

NextEfo ==
  \/ \E i \in 1..MaxNodes : VisitNode(i)
  \/ EfoPostPass

SpecEfo == InitEfo /\ [][NextEfo]_vars

\* ==================================================== Trait::run
MaxEfos == 3
MaxAssocs == 3
MaxGenes == 2

\* the significance threshold, 5e-8, counted in 1e-10
THRESHOLD == 500

\* s.split(sep): the pieces between the separators
RECURSIVE SplitFrom(_, _, _)
SplitFrom(piece, s, sep) ==
  IF s = <<>> THEN <<piece>>
  ELSE IF Head(s) = sep THEN <<piece>> \o SplitFrom(<<>>, Tail(s), sep)
  ELSE SplitFrom(Append(piece, Head(s)), Tail(s), sep)

Split(s, sep) == SplitFrom(<<>>, s, sep)

\* strs.join(sep)
RECURSIVE Join(_, _)
Join(strs, sep) ==
  IF strs = <<>> THEN <<>>
  ELSE IF Len(strs) = 1 THEN strs[1]
  ELSE strs[1] \o <<sep>> \o Join(Tail(strs), sep)

\* genes.iter().flat_map(|i| i.split(',').map(|i| i.trim().to_uppercase()))
RECURSIVE parse_genes(_)
parse_genes(genes) ==
  IF genes = <<>> THEN <<>>
  ELSE LET pieces == Split(Head(genes), ",") IN
       [i \in 1..Len(pieces) |-> to_uppercase(trim(pieces[i]))]
         \o parse_genes(Tail(genes))

\* iter().find(pred): the position of the first element that satisfies pred
NotFound == [some |-> FALSE, at |-> 0]
First(hits) ==
  IF hits = {} THEN NotFound
  ELSE [some |-> TRUE, at |-> CHOOSE i \in hits : \A j \in hits : i <= j]

find_efoOnePass(list, label) ==
  First({i \in 1..Len(list) : list[i].label = label \/ label \in list[i].synonyms})

find_efo(list, label) ==
  LET byLabel == First({i \in 1..Len(list) : list[i].label = label}) IN
  IF byLabel.some THEN byLabel
  ELSE First({i \in 1..Len(list) : label \in list[i].synonyms})

is_significantOrAt(a) == ~a.p_value.nan /\ a.p_value.v <= THRESHOLD

\* self.p_value < THRESHOLD, which is false of a NaN
is_significant(a) == ~a.p_value.nan /\ a.p_value.v < THRESHOLD

\* self.traits.contains(&efo)
is_associated_with(a, id) == \E i \in 1..Len(a.traits) : a.traits[i] = id

\* Vec<String>::contains
HasGene(a, gene) == \E i \in 1..Len(a.mapped_gene) : a.mapped_gene[i] = gene

\* ---- what query prints: a line is a kind, the strings it shows and, for a
\* table, the rows of the table
Ln(kind, cells) == [kind |-> kind, cells |-> cells, rows |-> <<>>]

TableRow(a, with_pubmed_links) ==
  [genes |-> Join(a.mapped_gene, ","), p_value |-> a.p_value,
   accession_id |-> a.accession_id, pubmed |-> a.pubmed,
   link |-> with_pubmed_links]

Table(assocs, with_pubmed_links, csv) ==
  [kind |-> IF csv THEN "csv table" ELSE "table", cells |-> <<>>,
   rows |-> [i \in 1..Len(assocs) |-> TableRow(assocs[i], with_pubmed_links)]]

\* the gene names the associations refer to, as the HashSet holds them
GeneSet(results) ==
  UNION {{results[i].mapped_gene[j] : j \in 1..Len(results[i].mapped_gene)} :
           i \in 1..Len(results)}

\* one line for the names, or one line for each
Listed(names, kind, csv) ==
  IF csv THEN <<Ln(kind, <<Join(names, ",")>>)>>
  ELSE [i \in 1..Len(names) |-> Ln(kind, <<names[i]>>)]

\* the sub-tables of the genes asked for
RECURSIVE PerGene(_, _, _, _)
PerGene(genes, results, with_pubmed_links, csv) ==
  IF genes = <<>> THEN <<>>
  ELSE LET gene == Head(genes)
           assocs == SelectSeq(results, LAMBDA a : HasGene(a, gene))
       IN <<Ln("gene:", <<gene>>)>>
            \o (IF assocs = <<>>
                  THEN IF csv THEN <<>> ELSE <<Ln("NONE", <<>>)>>
                  ELSE <<Table(assocs, with_pubmed_links, csv)>>)
            \o PerGene(Tail(genes), results, with_pubmed_links, csv)

PartitionSwapped(genes, results) ==
  [associated |-> SelectSeq(genes, LAMBDA g : \A i \in 1..Len(results) : ~HasGene(results[i], g)),
   not_associated |-> SelectSeq(genes, LAMBDA g : \E i \in 1..Len(results) : HasGene(results[i], g))]

\* the loop that pushes each gene asked for to associated or not_associated
Partition(genes, results) ==
  [associated |-> SelectSeq(genes, LAMBDA g : \E i \in 1..Len(results) : HasGene(results[i], g)),
   not_associated |-> SelectSeq(genes, LAMBDA g : \A i \in 1..Len(results) : ~HasGene(results[i], g))]

Heading(kind, names) == IF names = <<>> THEN <<>> ELSE <<Ln(kind, <<>>)>>

\* query: the outputs it can give, one for each order in which the HashSet of
\* gene names is iterated
query(efo, genes, loaded, with_associations, with_pubmed_links, csv) ==
  LET results ==
        SelectSeq(loaded,
                  LAMBDA a : is_significant(a) /\ is_associated_with(a, efo.id))
      label == <<Ln("label:", <<efo.label>>)>>
  IN IF results = <<>>
       THEN {label \o <<Ln("No significant associations found", <<>>)>>}
     ELSE IF genes = <<>>
       THEN IF with_associations
              THEN {label \o <<Table(results, with_pubmed_links, csv)>>}
              ELSE {label \o Listed(names, "gene", csv) :
                      names \in Orderings(GeneSet(results))}
     ELSE IF with_associations
       THEN {label \o PerGene(genes, results, with_pubmed_links, csv)}
     ELSE LET parts == Partition(genes, results) IN
          {label
             \o Heading("ASSOCIATED:", parts.associated)
             \o Listed(parts.associated, "item", csv)
             \o Heading("NOT ASSOCIATED:", parts.not_associated)
             \o Listed(parts.not_associated, "item", csv)}

\* ---- the archives the model loads
Assoc(traits, p, gene, accession_id) ==
  [traits |-> traits, p_value |-> p, mapped_gene |-> <<gene>>,
   accession_id |-> accession_id, pubmed |-> 7]

Finite(v) == [nan |-> FALSE, v |-> v]
NaN == [nan |-> TRUE, v |-> 0]

\* two associations of trait 1 with the gene A, one of trait 1 with B at the
\* threshold, one of traits 1 and 2 with B, one of trait 2 with AB, and one
\* of traits 1 and 3 with B whose p-value is a NaN
AssocKinds ==
  {Assoc(<<1>>, Finite(1), <<"A">>, 1),
   Assoc(<<1>>, Finite(490), <<"A">>, 2),
   Assoc(<<1>>, Finite(THRESHOLD), <<"B">>, 3),
   Assoc(<<1, 2>>, Finite(490), <<"B">>, 4),
   Assoc(<<2>>, Finite(1), <<"A", "B">>, 5),
   Assoc(<<1, 3>>, NaN, <<"B">>, 6)}

RECURSIVE Listing(_)
Listing(S) ==
  IF S = {} THEN <<>>
  ELSE LET x == CHOOSE y \in S : TRUE IN <<x>> \o Listing(S \ {x})

\* what write_gwas_file persists: sorted, no element twice
AssocArchives ==
  {Dedup(SortAssoc(Listing(S)).seq) :
     S \in {R \in SUBSET AssocKinds :
              Cardinality(R) <= MaxAssocs /\ SortAssoc(Listing(R)).ok}}

EfoNode(id, label, synonyms) ==
  [id |-> id, label |-> label, parent |-> None, children |-> {},
   synonyms |-> synonyms]

EfoKinds ==
  {EfoNode(1, <<"A">>, {}),
   EfoNode(2, <<"B">>, {<<"A">>, <<"B", "A">>}),
   EfoNode(3, <<"A", "B">>, {<<"B">>, <<"B", "A">>}),
   EfoNode(4, <<"A">>, {<<"A", "B">>})}

\* what write_efo_file persists: no id twice, in any order
EfoArchives ==
  {s \in UNION {[1..n -> EfoKinds] : n \in 0..MaxEfos} :
     \A i, j \in 1..Len(s) : i # j => s[i].id # s[j].id}

GeneArgs == {<<"a">>, <<"B">>, <<"b", ",", " ", "a">>}

\* Trait::run with load_efo and load_associations done; the labels of the
\* ontology vary
InitFind ==
  /\ RefreshIdle /\ GwasIdle /\ EfoIdle /\ AzIdle
  /\ cmd \in {[NoCmd EXCEPT !.efo = e] :
                e \in {<<" ", "a">>, <<"b">>, <<"a", "b", " ">>, <<"b", "a">>, <<"b", "b">>}}
  /\ efos_loaded \in EfoArchives
  /\ associations_loaded = <<Assoc(<<1>>, Finite(1), <<"A">>, 1)>>
  /\ tpc = "find"
  /\ found = NotFound
  /\ printed = <<>>
  /\ eprinted = <<>>

\* the same; the associations, the genes asked for and the flags vary
InitQuery ==
  /\ RefreshIdle /\ GwasIdle /\ EfoIdle /\ AzIdle
  /\ cmd \in [efo : {<<"a">>, <<" ", "b">>, <<"a", "b">>},
              gene : UNION {[1..n -> GeneArgs] : n \in 0..MaxGenes},
              with_associations : BOOLEAN,
              with_pubmed_links : BOOLEAN,
              csv : BOOLEAN]
  /\ efos_loaded = <<EfoNode(2, <<"B">>, {}), EfoNode(1, <<"A">>, {})>>
  /\ associations_loaded \in AssocArchives
  /\ tpc = "find"
  /\ found = NotFound
  /\ printed = <<>>
  /\ eprinted = <<>>

\* find_efo(&efos, &orig.to_uppercase()); on None the message and return
Resolve ==
  /\ tpc = "find"
  /\ LET orig == trim(cmd.efo)
         efo == find_efo(efos_loaded, to_uppercase(orig))
     IN /\ found' = efo
        /\ IF efo.some
             THEN tpc' = "query" /\ eprinted' = eprinted
             ELSE /\ tpc' = "returned"
                  /\ eprinted' = Append(eprinted, Ln("is not a valid EFO label", <<orig>>))
  /\ UNCHANGED <<cmd, efos_loaded, associations_loaded, printed>>
  /\ UNCHANGED <<rvars, gvars, evars, avars>>

\* query(efo, genes, &associations, ..)
Query ==
  /\ tpc = "query"
  /\ \E out \in query(efos_loaded[found.at], parse_genes(cmd.gene),
                      associations_loaded, cmd.with_associations,
                      cmd.with_pubmed_links, cmd.csv) :
       printed' = printed \o out
  /\ tpc' = "returned"
  /\ UNCHANGED <<cmd, efos_loaded, associations_loaded, found, eprinted>>
  /\ UNCHANGED <<rvars, gvars, evars, avars>>

NextTrait ==
  \/ Resolve
  \/ Query

SpecFind == InitFind /\ [][NextTrait]_vars

SpecQuery == InitQuery /\ [][NextTrait]_vars

\* ==================================================== AzTrait::run
LowerChar(c) ==
  CASE c = "A" -> "a" [] c = "B" -> "b" [] c = "T" -> "t" [] c = "U" -> "u"
    [] OTHER -> c

to_lowercase(s) == [i \in 1..Len(s) |-> LowerChar(s[i])]

AzFiles == <<"binary.csv.gz", "proteomics.csv.gz", "quantitative.csv.gz">>

\* a row of a file deserializes to an AzAssociation, or fails to
AzRow(trait_, mapped_gene, p) ==
  [ok |-> TRUE, trait_ |-> trait_, mapped_gene |-> mapped_gene, p_value |-> p]
BadRow == [ok |-> FALSE, trait_ |-> <<>>, mapped_gene |-> <<>>, p_value |-> NaN]

NoFile == [present |-> FALSE, rows |-> <<>>]
AzFile(recs) == [present |-> TRUE, rows |-> recs]

\* what each file can hold when it is there
AzContents ==
  [i \in 1..3 |->
     CASE i = 1 -> {<<>>, <<AzRow(<<"t">>, <<"A">>, Finite(1)),
                          AzRow(<<"u">>, <<"B">>, Finite(1))>>}
       [] i = 2 -> {<<>>, <<AzRow(<<"t">>, <<"A", "B">>, Finite(490)),
                          AzRow(<<"t">>, <<"B">>, Finite(THRESHOLD))>>}
       [] i = 3 -> {<<BadRow, AzRow(<<"t">>, <<"B">>, Finite(1))>>}]

AzDirs ==
  {d \in [1..3 -> [present : BOOLEAN, rows : UNION {AzContents[i] : i \in 1..3}]] :
     \A i \in 1..3 :
       IF d[i].present THEN d[i].rows \in AzContents[i] ELSE d[i] = NoFile}

\* AzAssociation::is_significant
az_is_significant(a) == ~a.p_value.nan /\ a.p_value.v < THRESHOLD

\* AzAssociation::is_associated_with(term)
az_is_associated_with(a, term) == a.trait_ = term

\* str::contains: gene is a substring of s
contains(s, gene) ==
  \E i \in 1..Len(s) + 1 :
    i + Len(gene) - 1 <= Len(s) /\ SubSeq(s, i, i + Len(gene) - 1) = gene

\* the rows that deserialize: filter_map(Result::ok)
Oks(recs) == SelectSeq(recs, LAMBDA r : r.ok)

\* drive_unindexed: the rows of the first file that is there
Driven(dir) ==
  IF dir[1].present THEN Oks(dir[1].rows)
  ELSE IF dir[2].present THEN Oks(dir[2].rows)
  ELSE IF dir[3].present THEN Oks(dir[3].rows)
  ELSE <<>>

\* the orders in which the workers of the par_bridge can deliver the rows
Deliveries(recs) ==
  {[i \in 1..Len(recs) |-> recs[o[i]]] : o \in Orderings(1..Len(recs))}

AzTableRow(a) ==
  [genes |-> a.mapped_gene, p_value |-> a.p_value, accession_id |-> 0,
   pubmed |-> 0, link |-> FALSE]

AzTable(assocs, csv) ==
  [kind |-> IF csv THEN "csv table" ELSE "table", cells |-> <<>>,
   rows |-> [i \in 1..Len(assocs) |-> AzTableRow(assocs[i])]]

RECURSIVE AzPerGene(_, _, _)
AzPerGene(genes, results, csv) ==
  IF genes = <<>> THEN <<>>
  ELSE LET gene == Head(genes)
           assocs == SelectSeq(results, LAMBDA a : contains(a.mapped_gene, gene))
       IN <<Ln("gene:", <<gene>>)>>
            \o (IF assocs = <<>>
                  THEN IF csv THEN <<>> ELSE <<Ln("NONE", <<>>)>>
                  ELSE <<AzTable(assocs, csv)>>)
            \o AzPerGene(Tail(genes), results, csv)

AzPartition(genes, results) ==
  [associated |->
     SelectSeq(genes, LAMBDA g : \E i \in 1..Len(results) : contains(results[i].mapped_gene, g)),
   not_associated |->
     SelectSeq(genes, LAMBDA g : \A i \in 1..Len(results) : ~contains(results[i].mapped_gene, g))]

\* query_az after the collection: the outputs it can give
query_az(term, genes, collected, with_associations, csv) ==
  LET results ==
        SelectSeq(collected,
                  LAMBDA a : az_is_significant(a) /\ az_is_associated_with(a, term))
      label == <<Ln("label:", <<term>>)>>
  IN IF results = <<>>
       THEN {label \o <<Ln("No significant associations found", <<>>)>>}
     ELSE IF genes = <<>>
       THEN IF with_associations
              THEN {label \o <<AzTable(results, csv)>>}
              ELSE {label \o Listed(names, "gene", csv) :
                      names \in Orderings({results[i].mapped_gene : i \in 1..Len(results)})}
     ELSE IF with_associations
       THEN {label \o AzPerGene(genes, results, csv)}
     ELSE LET parts == AzPartition(genes, results) IN
          {label
             \o Heading("ASSOCIATED:", parts.associated)
             \o Listed(parts.associated, "item", csv)
             \o Heading("NOT ASSOCIATED:", parts.not_associated)
             \o Listed(parts.not_associated, "item", csv)}

AzGeneArgs == {<<"a">>, <<"a", "b">>, <<"b">>}

InitAz ==
  /\ RefreshIdle /\ GwasIdle /\ EfoIdle /\ TraitIdle
  /\ az_cmd \in [trait_ : {<<" ", "T">>, <<"u">>},
                 gene : UNION {[1..n -> AzGeneArgs] : n \in 0..MaxGenes},
                 with_associations : BOOLEAN,
                 csv : BOOLEAN]
  /\ az_dir \in AzDirs
  /\ az_collected = <<>>
  /\ apc = "load"
  /\ az_printed = <<>>

\* AzAssociations::new(); ParallelIterator::collect(associations.into_par_iter())
AzCollect ==
  /\ apc = "load"
  /\ az_collected' \in Deliveries(Driven(az_dir))
  /\ apc' = "query"
  /\ UNCHANGED <<az_cmd, az_dir, az_printed>>
  /\ UNCHANGED <<rvars, gvars, evars, tvars>>

\* the rest of query_az
AzQuery ==
  /\ apc = "query"
  /\ \E out \in query_az(to_lowercase(trim(az_cmd.trait_)), parse_genes(az_cmd.gene),
                         az_collected, az_cmd.with_associations, az_cmd.csv) :
       az_printed' = az_printed \o out
  /\ apc' = "returned"
  /\ UNCHANGED <<az_cmd, az_dir, az_collected>>
  /\ UNCHANGED <<rvars, gvars, evars, tvars>>

NextAz ==
  \/ AzCollect
  \/ AzQuery

SpecAz == InitAz /\ [][NextAz]_vars

\* ============================================================== the claims
InCall == pc # "idle"
NoRequest == \A s \in Sources : ~heads[s] /\ ~gets[s]
OneDay == TicksPerDay
Contains(seq, x) == \E i \in 1..Len(seq) : seq[i] = x

\* C1 (as claimed): a call that fails leaves every file of the cache directory
\* exactly as it was when the call started.
C1_FailedCallLeavesCacheUnchanged ==
  (pc = "done" /\ result = "failed") => fs = pre

\* C2 (as claimed): at no point does any cache path, the metadata record
\* included, hold a partially written file.
C2_NoPartialCacheFile ==
  \A p \in Paths : fs[p].st # "partial"

\* C3: a call is short-circuited exactly when forceLevel is 0 and the metadata
\* record it found is less than one day old (with forceLevel 1 or 2, or the
\* metadata absent or at least a day old, it is not), and a short-circuited
\* call sends no HEAD and no GET and writes no file, whatever useLocalRawFiles.
C3_FreshnessShortCircuit ==
  InCall =>
    LET m == pre[metadata_path]
        young == callNow - m.time < OneDay
    IN /\ m.st = "full" =>
            ((result = "shortcut") <=> (args.force = 0 /\ young))
       /\ (m.st = "absent" \/ args.force \in {1, 2}) => result # "shortcut"
       /\ result = "shortcut" =>
            /\ pc = "done"
            /\ NoRequest
            /\ wrote = <<>>
            /\ tmp = NoTmp
            /\ fs = pre

C3_Witness ==
  /\ pc = "done" /\ result = "shortcut" /\ args.local
  /\ pre[metadata_path].st = "full"
  /\ callNow - pre[metadata_path].time = OneDay - 1

\* C4 (as claimed): after a successful refresh, a second refresh with
\* forceLevel 0 and no change of either remote source sends no request and
\* leaves the cache directory as the first left it.
C4_SecondRefreshIsNoOp ==
  (InCall /\ prevResult = "ok" /\ args.force = 0 /\ pubs = 0) =>
    (NoRequest /\ fs = pre)

\* C4 (amended): after a successful refresh, a second refresh with forceLevel 0
\* that starts less than one day after the first one's metadata timestamp
\* sends no request and leaves the cache directory as the first left it,
\* whether or not a remote source changed.
C4_SecondRefreshWithinADayIsNoOp ==
  (InCall /\ prevResult = "ok" /\ args.force = 0
     /\ callNow - pre[metadata_path].time < OneDay) =>
    (NoRequest /\ fs = pre /\ wrote = <<>> /\ result = "shortcut")

C4_Witness ==
  /\ pc = "done" /\ prevResult = "ok" /\ args.force = 0 /\ result = "shortcut"
  /\ callNow > pre[metadata_path].time
  /\ pre[associations_path].st = "full" /\ pre[efo_path].st = "full"

\* C5 (as claimed): with useLocalRawFiles set and the processed archive of a
\* source present, the call sends no request for that source, neither HEAD
\* nor GET.
C5_LocalModeSendsNoRequest ==
  \A s \in Sources :
    (InCall /\ args.local /\ pre[archive_path(s)].st # "absent") =>
      (~heads[s] /\ ~gets[s])

\* The remote signal is newer than a modification time: the catalog's signal is
\* a date (its midnight is compared), the ontology's a time.
Newer(s, signal, mtime) ==
  IF s = "gwas" THEN signal * TicksPerDay > mtime ELSE signal > mtime

\* C6: for each source, a call that is not short-circuited ingests it from a
\* fresh download when its archive does not exist (even with useLocalRawFiles
\* set); when the archive exists it ingests it again exactly when the remote
\* signal is newer than the archive's modification time or forceLevel is 2,
\* and otherwise leaves the source's files untouched.
C6_IngestionDecision ==
  \A s \in Sources :
    decision[s] # "none" =>
      LET a == pre[archive_path(s)] IN
      /\ a.st = "absent" =>
           /\ decision[s] = "fresh"
           /\ ~heads[s]
           /\ Contains(wrote, archive_path(s)) => gets[s]
      /\ a.st # "absent" =>
           /\ heads[s]
           /\ decision[s] \in {"download", "local", "skip"}
           /\ (decision[s] # "skip") <=>
                (Newer(s, seen[s], a.time) \/ args.force = 2)
      /\ decision[s] = "skip" =>
           /\ ~gets[s]
           /\ fs[archive_path(s)] = pre[archive_path(s)]
           /\ fs[raw_path(s)] = pre[raw_path(s)]
      /\ (decision[s] # "skip" /\ result = "ok") =>
           Contains(wrote, archive_path(s))

C6_Witness ==
  /\ pc = "done" /\ result = "ok" /\ args.force = 1
  /\ decision["gwas"] = "skip"
  /\ decision["efo"] = "download"
  /\ pre[efo_path].st = "full"

\* The place of a cache path in a refresh.
Rank(p) ==
  CASE p = associations_tsv_path -> 1
    [] p = associations_path -> 2
    [] p = efo_owl_path -> 3
    [] p = efo_path -> 4
    [] p = metadata_path -> 5

Completed(s) ==
  /\ decision[s] # "none"
  /\ decision[s] # "skip" => Contains(wrote, archive_path(s))

Started(s) ==
  \/ decision[s] # "none" \/ heads[s] \/ gets[s]
  \/ Contains(wrote, raw_path(s)) \/ Contains(wrote, archive_path(s))
  \/ (InCall /\ pc # "done" /\ src = s /\ pc \notin {"meta", "meta_write"})

\* C7: in a call that is not short-circuited the catalog is processed to
\* completion before any step of the ontology, the metadata record is written
\* after both sources and is the last write of the call, whether or not a
\* source was ingested, and a call in which a source failed writes no metadata.
C7_RefreshOrder ==
  /\ \A i, j \in 1..Len(wrote) : i < j => Rank(wrote[i]) < Rank(wrote[j])
  /\ Started("efo") => Completed("gwas")
  /\ Contains(wrote, metadata_path) =>
       (Completed("gwas") /\ Completed("efo"))
  /\ pc \in {"meta", "meta_write"} => (Completed("gwas") /\ Completed("efo"))
  /\ (pc = "done" /\ result = "ok") =>
       (wrote # <<>> /\ wrote[Len(wrote)] = metadata_path)
  /\ (pc = "done" /\ result = "failed"
        /\ ~(Completed("gwas") /\ Completed("efo"))) =>
       (~Contains(wrote, metadata_path)
          /\ fs[metadata_path] = pre[metadata_path])

C7_Witness ==
  /\ pc = "done" /\ result = "ok"
  /\ decision["gwas"] = "skip" /\ decision["efo"] = "download"
  /\ wrote = <<efo_owl_path, efo_path, metadata_path>>

\* ---- the catalog ingestion
Range(seq) == {seq[i] : i \in 1..Len(seq)}
Ascending(nums) == \A i, j \in 1..Len(nums) : i < j => nums[i] <= nums[j]
StrictlyAscending(nums) == \A i, j \in 1..Len(nums) : i < j => nums[i] < nums[j]
AscendingStrs(strs) ==
  \A i, j \in 1..Len(strs) : i < j => CmpStr(strs[i], strs[j]) # "gt"
Emitted == Range(emitted) \cup Range(associations)

Before(a, b) ==
  LET ta == a.traits
      tb == b.traits
  IN IF ta # tb THEN CmpNums(ta, tb) = "lt"
     ELSE IF a.p_value # b.p_value
       THEN ~a.p_value.nan /\ ~b.p_value.nan /\ a.p_value.v < b.p_value.v
     ELSE IF a.mapped_gene # b.mapped_gene
       THEN CmpStrs(a.mapped_gene, b.mapped_gene) = "lt"
     ELSE IF a.accession_id # b.accession_id
       THEN a.accession_id < b.accession_id
     ELSE a.pubmed < b.pubmed

\* the Associations the records of the document give, whatever the order
Emits ==
  {Transform(rows[i]).val : i \in {j \in DOMAIN rows : Transform(rows[j]).kind = "some"}}

\* C9: the persisted collection is sorted ascending by (trait-id list,
\* p-value, gene list, accession id, bibliographic id) with no two equal
\* elements, it is the same for every order in which the workers deliver the
\* records, and it is made only after every record has been transformed.
C9_PersistedSortedDeduplicated ==
  gpc = "done" =>
    /\ taken = DOMAIN rows
    /\ \A i, j \in 1..Len(associations) :
         i < j => Before(associations[i], associations[j])
    /\ Range(associations) = Emits

C9_Witness ==
  /\ gpc = "done"
  /\ Len(associations) = 2
  /\ Len(emitted) = 3
  /\ emitted[1] = associations[2]

\* ---- the ontology ingestion
Persisted == Range(efo_archive)

\* the Efos the nodes of the document give
Collectable ==
  {EfoTransform(owl[i]).val :
     i \in {j \in DOMAIN owl : EfoTransform(owl[j]).kind = "some"}}

Dangling(n) == n.parent.some /\ \A p \in Persisted : p.id # n.parent.id

\* C10: in the persisted collection the children set of every node P holds the
\* id of every node whose parent id is P's id; a node whose parent id is the id
\* of no node is persisted as it was read and causes no failure (the ingestion
\* fails only on a node that does not parse); and the collection is made only
\* after every node of the document is in the map, so that it does not matter
\* whether a parent comes before or after its child.
C10_BackfillInvariant ==
  /\ epc = "done" =>
       /\ visited = DOMAIN owl
       /\ \A n, p \in Persisted :
            (n.parent.some /\ n.parent.id = p.id) => n.id \in p.children
       /\ {n.id : n \in Persisted} = {c.id : c \in Collectable}
       /\ \A n \in Persisted :
            Dangling(n) => \E c \in Collectable : [c EXCEPT !.children = n.children] = n
  /\ epc = "panic" => \E i \in visited : EfoTransform(owl[i]).kind = "panic"

C10_Witness ==
  /\ epc = "done"
  /\ \E i, j \in DOMAIN owl :
       /\ i < j
       /\ EfoTransform(owl[i]).val.parent = Some(EfoTransform(owl[j]).val.id)
       /\ EfoTransform(owl[i]).val.id # EfoTransform(owl[j]).val.id
       /\ \E p \in Persisted :
            /\ p.id = EfoTransform(owl[j]).val.id
            /\ EfoTransform(owl[i]).val.id \in p.children
  /\ \E n \in Persisted : Dangling(n) /\ n.parent.id # 0

\* ---- the trait query
Returned == tpc = "returned" /\ found.some
Target == efos_loaded[found.at]
Asked == parse_genes(cmd.gene)

\* the associations below the threshold that name the trait
Surviving ==
  {a \in Range(associations_loaded) :
     ~a.p_value.nan /\ a.p_value.v < THRESHOLD /\ Target.id \in Range(a.traits)}

SurvivingGenes == UNION {Range(a.mapped_gene) : a \in Surviving}

NothingFound == <<Ln("No significant associations found", <<>>)>>

\* C11: with no gene asked for and showAssociations false, query prints, under
\* the label, exactly the gene names of the associations that are strictly
\* below the threshold and name the trait, each name once (on one line each,
\* or comma-joined on one line for CSV); an association at the threshold
\* gives nothing; and when no association passes, it prints the 'no
\* significant associations found' report and nothing more.
C11_GeneSetOfSurvivors ==
  (Returned /\ Asked = <<>> /\ ~cmd.with_associations) =>
    /\ printed # <<>>
    /\ printed[1] = Ln("label:", <<Target.label>>)
    /\ Surviving = {} => Tail(printed) = NothingFound
    /\ (Surviving # {} /\ cmd.csv) =>
         /\ Len(printed) = 2
         /\ printed[2].kind = "gene"
         /\ \E names \in Orderings(SurvivingGenes) :
              printed[2].cells = <<Join(names, ",")>>
    /\ (Surviving # {} /\ ~cmd.csv) =>
         /\ Len(printed) = 1 + Cardinality(SurvivingGenes)
         /\ \A i \in 2..Len(printed) :
              printed[i].kind = "gene" /\ Len(printed[i].cells) = 1
         /\ {printed[i].cells[1] : i \in 2..Len(printed)} = SurvivingGenes

C11_Witness ==
  /\ Returned /\ Asked = <<>> /\ ~cmd.with_associations /\ ~cmd.csv
  /\ Cardinality(Surviving) = 2
  /\ \E a \in Range(associations_loaded) :
       /\ a.p_value = Finite(THRESHOLD)
       /\ Target.id \in Range(a.traits)
       /\ \A i \in 1..Len(printed) : printed[i].cells # <<a.mapped_gene[1]>>
  /\ Len(printed) = 2
  /\ printed[2] = Ln("gene", <<<<"A">>>>)

\* the genes listed under a heading of the output, in the order listed
ListedUnder(out, csv, heading) ==
  LET at == {i \in 1..Len(out) : out[i].kind = heading} IN
  IF at = {} THEN <<>>
  ELSE LET h == CHOOSE i \in at : TRUE
           items == SelectSeq(SubSeq(out, h + 1, Len(out)),
                              LAMBDA l : l.kind = "item")
           upto == IF \E i \in h + 1..Len(out) : out[i].kind # "item"
                     THEN (CHOOSE i \in h + 1..Len(out) :
                             /\ out[i].kind # "item"
                             /\ \A j \in h + 1..i - 1 : out[j].kind = "item") - 1
                     ELSE Len(out)
           lines == SubSeq(out, h + 1, upto)
       IN IF csv
            THEN Split(lines[1].cells[1], ",")
            ELSE [i \in 1..Len(lines) |-> lines[i].cells[1]]

Under(heading) == ListedUnder(printed, cmd.csv, heading)

Headings(kind) == Cardinality({i \in 1..Len(printed) : printed[i].kind = kind})

IsAssociated(gene) == \E a \in Surviving : gene \in Range(a.mapped_gene)

TwoLists ==
  /\ Under("ASSOCIATED:") = SelectSeq(Asked, IsAssociated)
  /\ Under("NOT ASSOCIATED:") = SelectSeq(Asked, LAMBDA g : ~IsAssociated(g))
  /\ Headings("ASSOCIATED:") = IF \E i \in 1..Len(Asked) : IsAssociated(Asked[i]) THEN 1 ELSE 0
  /\ Headings("NOT ASSOCIATED:") = IF \E i \in 1..Len(Asked) : ~IsAssociated(Asked[i]) THEN 1 ELSE 0
  /\ \A i, j \in 1..Len(printed) :
       (printed[i].kind = "ASSOCIATED:" /\ printed[j].kind = "NOT ASSOCIATED:") => i < j

\* C12 (as claimed): with genes asked for and showAssociations false, every
\* gene asked for is in exactly one of the two lists, ASSOCIATED when a
\* surviving association has it in its gene list and NOT ASSOCIATED otherwise,
\* in input order, a heading printed only for a list that is not empty.
C12_EveryGeneInOneList ==
  (Returned /\ Asked # <<>> /\ ~cmd.with_associations) => TwoLists

\* C12 (amended): the same, when at least one association survives the
\* filter; when none does, the output is the 'no significant associations
\* found' report and neither list.
C12_EveryGeneInOneListWhenSomeSurvive ==
  (Returned /\ Asked # <<>> /\ ~cmd.with_associations) =>
    /\ Surviving # {} => TwoLists
    /\ Surviving = {} =>
         /\ Tail(printed) = NothingFound
         /\ Headings("ASSOCIATED:") = 0 /\ Headings("NOT ASSOCIATED:") = 0

C12_Witness ==
  /\ Returned /\ ~cmd.with_associations /\ ~cmd.csv
  /\ Asked = <<<<"B">>, <<"A">>, <<"B">>>>
  /\ Under("ASSOCIATED:") = <<<<"A">>>>
  /\ Under("NOT ASSOCIATED:") = <<<<"B">>, <<"B">>>>

\* ---- the trait-label resolution
Wanted == to_uppercase(trim(cmd.efo))
LabelHits == {i \in 1..Len(efos_loaded) : efos_loaded[i].label = Wanted}
SynonymHits == {i \in 1..Len(efos_loaded) : Wanted \in efos_loaded[i].synonyms}
Least(S) == CHOOSE i \in S : \A j \in S : i <= j

\* C13: when a node's label is the query string, the first such node of the
\* collection is returned, even if an earlier node has the string as a
\* synonym; otherwise the first node whose synonyms hold the string; when
\* there is neither, the result is 'not found', and the command reports it
\* and returns without printing a query result.
C13_LabelBeforeSynonym ==
  tpc # "find" =>
    /\ LabelHits # {} => (found.some /\ found.at = Least(LabelHits))
    /\ (LabelHits = {} /\ SynonymHits # {}) =>
         (found.some /\ found.at = Least(SynonymHits))
    /\ (LabelHits = {} /\ SynonymHits = {}) =>
         /\ ~found.some
         /\ tpc = "returned"
         /\ printed = <<>>
         /\ eprinted = <<Ln("is not a valid EFO label", <<trim(cmd.efo)>>)>>
    /\ found.some => eprinted = <<>>

C13_Witness ==
  /\ tpc = "query"
  /\ found.at > 1
  /\ LabelHits # {}
  /\ found.at = Least(LabelHits)
  /\ Wanted \in efos_loaded[1].synonyms

\* ---- the secondary query
AzPresent == {i \in 1..3 : az_dir[i].present}
AzRecords(i) == {az_dir[i].rows[k] : k \in {j \in 1..Len(az_dir[i].rows) : az_dir[i].rows[j].ok}}

\* C14 (as claimed): the collection query_az evaluates holds the records of
\* every file of the secondary directory that is present, whichever other
\* files are present, and nothing else.
C14_AllPresentFilesQueried ==
  apc \in {"query", "returned"} =>
    Range(az_collected) = UNION {AzRecords(i) : i \in AzPresent}

AzTerm == to_lowercase(trim(az_cmd.trait_))
AzAsked == parse_genes(az_cmd.gene)
AzSurviving ==
  {a \in Range(az_collected) :
     ~a.p_value.nan /\ a.p_value.v < THRESHOLD /\ a.trait_ = AzTerm}
AzNamed(gene) == \E a \in AzSurviving : a.mapped_gene = gene

\* C16 (as claimed): with genes asked for and a record surviving, a gene asked
\* for matches a surviving record only when the record's gene name is that
\* gene: a gene that is the name of no surviving record is not listed as
\* ASSOCIATED and, with showAssociations, its sub-result is empty, also when
\* it is a proper substring of a record's gene name.
C16_GeneMatchedByEquality ==
  (apc = "returned" /\ AzAsked # <<>> /\ AzSurviving # {}) =>
    /\ ~az_cmd.with_associations =>
         /\ ListedUnder(az_printed, az_cmd.csv, "ASSOCIATED:")
              = SelectSeq(AzAsked, AzNamed)
         /\ ListedUnder(az_printed, az_cmd.csv, "NOT ASSOCIATED:")
              = SelectSeq(AzAsked, LAMBDA g : ~AzNamed(g))
    /\ az_cmd.with_associations =>
         \A i \in 1..Len(az_printed) :
           (az_printed[i].kind = "gene:" /\ ~AzNamed(az_printed[i].cells[1])) =>
             (i = Len(az_printed)
                \/ az_printed[i + 1].kind \in {"gene:", "NONE"})

\* ---- the ontology synonyms
\* the trimmed, upper-cased texts of the exact-synonym children of a node
SynonymTexts(node) ==
  {to_uppercase(trim(node.synonym[k])) : k \in 1..Len(node.synonym)}

\* C15 (as claimed): the synonym set of every class node the ingestion emits
\* is the set of the trimmed, upper-cased texts of its exact-synonym children.
C15_SynonymsOfChildren ==
  \A id \in DOMAIN efos :
    \E i \in visited :
      /\ owl[i].about.has
      /\ ParseU32(SplitLast(owl[i].about.v, "_")) = [ok |-> TRUE, val |-> id]
      /\ owl[i].label.text.has
      /\ efos[id].label = to_uppercase(trim(owl[i].label.text.v))
      /\ efos[id].synonyms = SynonymTexts(owl[i])

\* ---- the cache after any sequence of refreshes
\* std::fs::read(path).unwrap() of load_associations and load_efo
Readable(path) == fs[path].st # "absent"

\* C17: from an empty cache directory, whatever calls were made and wherever
\* they failed, a metadata record that is there (whole or not) comes with both
\* processed archives, whole; so after a short-circuited refresh both loads
\* find their archive.
C17_MetadataImpliesArchives ==
  /\ fs[metadata_path].st # "absent" =>
       (fs[associations_path].st = "full" /\ fs[efo_path].st = "full")
  /\ (pc = "done" /\ result = "shortcut") =>
       (Readable(associations_path) /\ Readable(efo_path))

C17_Witness ==
  /\ pc = "done" /\ result = "shortcut"
  /\ prevResult = "failed"
  /\ Readable(associations_path) /\ Readable(efo_path)

====
